---- MODULE Spec2Model ----
(***************************************************************************)
(* Model of the Wiktionary audio extension's conversion pipeline:          *)
(*   background.js  - the service worker (coordinator): DOWNLOAD_AUDIO     *)
(*                    handler, ensureOffscreenAndReady, transcodeToWav     *)
(*   offscreen.js   - the offscreen document (engine session): loadFFmpeg  *)
(*                    and the port.onMessage job handler                   *)
(*   content-script.js - downloadAllFiles and safeSendMessage (BatchSpec), *)
(*                    audio discovery and isAudioFile (DiscoverySpec)      *)
(* JavaScript runs each handler to its next await atomically, so one       *)
(* action is the code between two suspension points.  A request and the    *)
(* transcode job it opens share one identifier: request r posts the job    *)
(* descriptor of job r on port r, and the bytes job r produces are the     *)
(* bytes transcoded from the source URL of request r.                      *)
(***************************************************************************)
EXTENDS Naturals, FiniteSets, Sequences

\* Number of DOWNLOAD_AUDIO requests the environment sends.
NumReq == 2

Req == 1..NumReq
NULL == "null"

\* The delay of the timer of transcodeToWav (background.js line 101).
TranscodeTimeoutMs == 90000
\* timeoutMs of safeSendMessage: its default (content-script.js line 88) and
\* the value downloadAllFiles passes in convert mode (line 482).
DefaultMessageTimeoutMs == 90000
ConvertMessageTimeoutMs == 120000

VARIABLES
    \* ---- background.js ----
    reqPc,          \* position of the DOWNLOAD_AUDIO handler of request r
    mode,           \* msg.mode of request r
    probe,          \* state of the OFFSCREEN_PING of request r
    offscreenDoc,   \* the offscreen document exists
    offscreenReady, \* background.js:11
    listener,       \* messageListener of request r is registered on runtime.onMessage
    timer,          \* the timer of transcodeToWav of request r
    deadline,       \* the delay, in ms, that timer was set with (0: not set)
    port,           \* the port named 'ffmpeg' of request r
    sink,           \* calls of chrome.downloads.download made for request r
    response,       \* sendResponse calls made for request r
    \* ---- offscreen.js ----
    loaded,         \* offscreen.js:25
    loadPromise,    \* offscreen.js:26, NULL or "promise"
    loading,        \* position of the load attempt (the async function of line 43)
    ffCalls,        \* invocations of ffmpeg.load that have not returned
    jobPc,          \* position of the port.onMessage handler of job j
    posted,         \* port.postMessage results of job j
    broadcast,      \* chrome.runtime.sendMessage results of job j
    \* ---- content-script.js: downloadAllFiles ----
    batchPc,        \* "idle", "main" (lines 479-500), "fallback" (512-520), "done"
    batchMode,      \* settings.mode read at line 476
    cs,             \* state of the promise of safeSendMessage for item r
    csTimeout,      \* timeoutMs of safeSendMessage for item r (0: not sent)
    successCount,   \* line 472
    failCount,      \* line 473
    feedback,       \* the feedback shown at lines 503-506
    \* ---- content-script.js: discovery ----
    page,           \* the media files of the page, as the two APIs describe them
    discPc,         \* position of the main function (lines 561-585)
    files,          \* the files whose titles listAudioFileTitles returned
    resolved,       \* the local variable resolved of the main function
    examined,       \* the entries the last Action API response held
    queries,        \* number of requests issued, per stage
    failedStage,    \* the stage whose failure reached the catch of line 582
    uiShown,        \* createUI was called
    \* ---- background.js: sanitizeFilename ----
    fnPc,           \* "idle", "once" (applied to the name), "twice" (and to its result)
    rawName,        \* the name sanitizeFilename was called with
    sanitized,      \* sanitizeFilename(rawName)
    resanitized,    \* sanitizeFilename(sanitized)
    \* ---- the payload of FFMPEG_TRANSCODE_COMPLETE ----
    payloadPc,      \* "idle", "read", "sent", "rebuilt", "rejected"
    engineOut,      \* the value out of offscreen.js:236
    audioBytes,     \* the field audioBytes of the message background.js receives
    uint8Array,     \* the value uint8Array of background.js:135
    \* ---- content-script.js: downloadFile ----
    clickPc,        \* "idle", "primary" (lines 443-448), "fallback" (460-465), "done"
    clickMode,      \* the mode read at line 430
    clickFeedback,  \* the last feedback shown on the button
    \* ---- the completion message as background.js received it ----
    completion      \* "none", or whether message.audioBytes of job j was a
                    \* non-empty Array ("valid") or not ("invalid")

bgVars == <<reqPc, mode, probe, offscreenDoc, offscreenReady, listener, timer,
            deadline, port, sink, response>>
loadVars == <<loaded, loadPromise, loading, ffCalls>>
jobVars == <<jobPc, posted, broadcast>>
batchVars == <<batchPc, batchMode, cs, csTimeout, successCount, failCount, feedback>>
discVars == <<page, discPc, files, resolved, examined, queries, failedStage, uiShown>>
csVars == <<batchVars, discVars>>
fnVars == <<fnPc, rawName, sanitized, resanitized>>
payloadVars == <<payloadPc, engineOut, audioBytes, uint8Array>>
pureVars == <<fnVars, payloadVars>>
clickVars == <<clickPc, clickMode, clickFeedback>>
msgVars == <<completion>>
vars == <<reqPc, mode, probe, offscreenDoc, offscreenReady, listener, timer,
          deadline, port, sink, response, loaded, loadPromise, loading, ffCalls,
          jobPc, posted, broadcast, batchPc, batchMode, cs, csTimeout,
          successCount, failCount, feedback, page, discPc, files, resolved,
          examined, queries, failedStage, uiShown, fnPc, rawName, sanitized,
          resanitized, payloadPc, engineOut, audioBytes, uint8Array, clickPc,
          clickMode, clickFeedback, completion>>

Init ==
    /\ reqPc = [r \in Req |-> "new"]
    /\ mode = [r \in Req |-> "none"]
    /\ probe = [r \in Req |-> "none"]
    /\ offscreenDoc = FALSE
    /\ offscreenReady = FALSE
    /\ listener = [r \in Req |-> FALSE]
    /\ timer = [r \in Req |-> "none"]
    /\ deadline = [r \in Req |-> 0]
    /\ port = [r \in Req |-> "none"]
    /\ sink = [r \in Req |-> << >>]
    /\ response = [r \in Req |-> << >>]
    /\ loaded = FALSE
    /\ loadPromise = NULL
    /\ loading = "idle"
    /\ ffCalls = 0
    /\ jobPc = [j \in Req |-> "none"]
    /\ posted = [j \in Req |-> 0]
    /\ broadcast = [j \in Req |-> 0]
    /\ batchPc = "idle"
    /\ batchMode = "none"
    /\ cs = [r \in Req |-> "none"]
    /\ csTimeout = [r \in Req |-> 0]
    /\ successCount = 0
    /\ failCount = 0
    /\ feedback = "none"
    /\ page = {}
    /\ discPc = "start"
    /\ files = {}
    /\ resolved = {}
    /\ examined = {}
    /\ queries = [list |-> 0, resolve |-> 0, fallback |-> 0]
    /\ failedStage = "none"
    /\ uiShown = FALSE
    /\ fnPc = "idle"
    /\ rawName = << >>
    /\ sanitized = << >>
    /\ resanitized = << >>
    /\ payloadPc = "idle"
    /\ engineOut = NULL
    /\ audioBytes = NULL
    /\ uint8Array = NULL
    /\ clickPc = "idle"
    /\ clickMode = "none"
    /\ clickFeedback = "none"
    /\ completion = [j \in Req |-> "none"]

----------------------------------------------------------------------------
(* background.js *)

\* sendResponse({ ok: false, error }) from the .catch of the handler (line 217)
\* or sendResponse({ ok: true }) (lines 202, 211).
sendResponse(r, ok) ==
    response' = [response EXCEPT ![r] = Append(@, ok)]

\* A call of chrome.downloads.download: its argument is the source URL and
\* original filename of request j (line 210), or the data URL of the bytes
\* and the filename that job j produced (lines 180-193); returned is
\* "pending" until the call returns ("ok") or throws ("failed").
Payload(kind, j) == [kind |-> kind, of |-> j, returned |-> "pending"]

\* chrome.downloads.download is invoked for request r.
download(r, payload) ==
    sink' = [sink EXCEPT ![r] = Append(@, payload)]

\* chrome.offscreen.createDocument (lines 49-59): creates the document and
\* resets the flag, or throws because the document exists (ignored).
createDocument ==
    IF offscreenDoc
    THEN UNCHANGED <<offscreenDoc, offscreenReady>>
    ELSE offscreenDoc' = TRUE /\ offscreenReady' = FALSE

\* The handler with the offscreen document created before the test of the
\* mode, so for original requests too.
handleDownloadAudio_AlwaysCreate(r, m) ==
    /\ reqPc[r] = "new"
    /\ mode' = [mode EXCEPT ![r] = m]
    /\ createDocument
    /\ IF m = "convert"
       THEN /\ probe' = [probe EXCEPT ![r] = "pending"]
            /\ reqPc' = [reqPc EXCEPT ![r] = "probe"]
            /\ UNCHANGED sink
       ELSE /\ download(r, Payload("url", r))
            /\ reqPc' = [reqPc EXCEPT ![r] = "downloading"]
            /\ UNCHANGED probe
    /\ UNCHANGED <<listener, timer, deadline, port, response>>
    /\ UNCHANGED <<loadVars, jobVars>>

\* The DOWNLOAD_AUDIO handler up to its first suspension (lines 158-169,
\* 207-210): convert mode enters transcodeToWav, which calls
\* ensureOffscreenAndReady; any other mode calls the download sink.
handleDownloadAudio(r, m) ==
    /\ reqPc[r] = "new"
    /\ mode' = [mode EXCEPT ![r] = m]
    /\ IF m = "convert"
       THEN /\ createDocument
            /\ probe' = [probe EXCEPT ![r] = "pending"]
            /\ reqPc' = [reqPc EXCEPT ![r] = "probe"]
            /\ UNCHANGED sink
       ELSE /\ download(r, Payload("url", r))
            /\ reqPc' = [reqPc EXCEPT ![r] = "downloading"]
            /\ UNCHANGED <<probe, offscreenDoc, offscreenReady>>
    /\ UNCHANGED <<listener, timer, deadline, port, response>>
    /\ UNCHANGED <<loadVars, jobVars>>

\* A DOWNLOAD_AUDIO message of some tab arrives.  Requests are numbered in
\* the order they arrive.
OnDownloadAudio(r, m) ==
    /\ \A q \in Req : q < r => reqPc[q] # "new"
    /\ handleDownloadAudio(r, m)
    /\ UNCHANGED <<csVars, pureVars, clickVars, msgVars>>

\* transcodeToWav with a timer that depends on the state of the engine:
\* 120 s when the job will have to wait for a load, 90 s otherwise.
transcodeToWav_ColdDeadline(r) ==
    /\ timer' = [timer EXCEPT ![r] = "pending"]
    /\ deadline' = [deadline EXCEPT ![r] =
                       IF loaded THEN TranscodeTimeoutMs ELSE ConvertMessageTimeoutMs]
    /\ port' = [port EXCEPT ![r] = "open"]
    /\ listener' = [listener EXCEPT ![r] = TRUE]
    /\ jobPc' = [jobPc EXCEPT ![r] = "sent"]
    /\ reqPc' = [reqPc EXCEPT ![r] = "waiting"]
    /\ UNCHANGED response

\* The executor of the promise of transcodeToWav (lines 97-154): sets the
\* timer, connects the port, registers messageListener, posts the descriptor.
transcodeToWav(r) ==
    /\ timer' = [timer EXCEPT ![r] = "pending"]
    /\ deadline' = [deadline EXCEPT ![r] = TranscodeTimeoutMs]
    /\ port' = [port EXCEPT ![r] = "open"]
    /\ listener' = [listener EXCEPT ![r] = TRUE]
    /\ jobPc' = [jobPc EXCEPT ![r] = "sent"]
    /\ reqPc' = [reqPc EXCEPT ![r] = "waiting"]
    /\ UNCHANGED response

\* The rejection of the awaited promise reaches the .catch of the handler (line 217).
dispatchFails(r) ==
    /\ reqPc' = [reqPc EXCEPT ![r] = "responded"]
    /\ sendResponse(r, FALSE)

\* The callback of the ping without the test of response.ready (line 79):
\* any response that is not a runtime error resolves the promise.
pingCallback_AnyResponse(r, ans) ==
    IF ans # "error"
    THEN /\ offscreenReady' = TRUE
         /\ transcodeToWav(r)
    ELSE /\ dispatchFails(r)
         /\ UNCHANGED <<offscreenReady, timer, deadline, port, listener, jobPc>>

\* The callback of the ping (lines 73-87) while its promise is unsettled.
\* ans is "ready" (response.ready), "notready" (any other response) or
\* "error" (chrome.runtime.lastError).
pingCallback(r, ans) ==
    IF ans = "ready"
    THEN /\ offscreenReady' = TRUE
         /\ transcodeToWav(r)
    ELSE /\ dispatchFails(r)
         /\ UNCHANGED <<offscreenReady, timer, deadline, port, listener, jobPc>>

OnPingResponse(r, ans) ==
    /\ reqPc[r] = "probe"
    /\ probe[r] = "pending"
    /\ ans = "ready" => offscreenDoc
    /\ probe' = [probe EXCEPT ![r] = IF ans = "ready" THEN "ready" ELSE "failed"]
    /\ pingCallback(r, ans)
    /\ UNCHANGED <<mode, offscreenDoc, sink>>
    /\ UNCHANGED <<loadVars, posted, broadcast, csVars, pureVars, clickVars, msgVars>>

\* The 5 s timer of ensureOffscreenAndReady fires (lines 65-68).
PingTimeout(r) ==
    /\ reqPc[r] = "probe"
    /\ probe[r] = "pending"
    /\ probe' = [probe EXCEPT ![r] = "timeout"]
    /\ dispatchFails(r)
    /\ UNCHANGED <<mode, offscreenDoc, offscreenReady, listener, timer, deadline, port, sink>>
    /\ UNCHANGED <<loadVars, jobVars, csVars, pureVars, clickVars, msgVars>>

\* The callback of the ping runs after the 5 s timer fired: the promise is
\* already rejected, so resolve and reject do nothing (lines 73-87).
OnLatePingResponse(r, ans) ==
    /\ probe[r] = "timeout"
    /\ ans = "ready" => offscreenDoc
    /\ probe' = [probe EXCEPT ![r] = "late"]
    /\ offscreenReady' = (offscreenReady \/ ans = "ready")
    /\ UNCHANGED <<reqPc, mode, offscreenDoc, listener, timer, deadline, port, sink, response>>
    /\ UNCHANGED <<loadVars, jobVars, csVars, pureVars, clickVars, msgVars>>

\* The 90 s timer without the reject of line 100: the promise stays pending.
transcodeTimeout_NoReject(r) ==
    /\ timer' = [timer EXCEPT ![r] = "fired"]
    /\ UNCHANGED <<reqPc, response>>

\* The 90 s timer of transcodeToWav fires (lines 98-101): the promise is
\* rejected if it is still pending; messageListener stays registered.
transcodeTimeout(r) ==
    /\ timer' = [timer EXCEPT ![r] = "fired"]
    /\ IF reqPc[r] = "waiting"
       THEN dispatchFails(r)
       ELSE UNCHANGED <<reqPc, response>>

OnTranscodeTimeout(r) ==
    /\ timer[r] = "pending"
    /\ transcodeTimeout(r)
    /\ UNCHANGED <<mode, probe, offscreenDoc, offscreenReady, listener, deadline, port, sink>>
    /\ UNCHANGED <<loadVars, jobVars, csVars, pureVars, clickVars, msgVars>>

\* The listeners that take a FFMPEG_TRANSCODE_COMPLETE message: line 110
\* tests the type of the message and nothing else.
Receivers == {r \in Req : listener[r]}

\* The handler that sends { ok: true } whether the download sink returned
\* or threw: the catch of lines 197-200 without its rethrow.
downloadReturned_AlwaysOk(r, ok) ==
    /\ reqPc' = [reqPc EXCEPT ![r] = "responded"]
    /\ sendResponse(r, TRUE)

\* The handler resumes after "await chrome.downloads.download": when it
\* returned, sendResponse({ ok: true }) (lines 202, 211); when it threw, the
\* error reaches the .catch of line 217 (in convert mode through the rethrow
\* of lines 197-200).
downloadReturned(r, ok) ==
    /\ reqPc' = [reqPc EXCEPT ![r] = "responded"]
    /\ sendResponse(r, ok)

\* chrome.downloads.download returns or throws (lines 189-202, 210-211, 217-219).
OnDownloadDone(r, ok) ==
    /\ reqPc[r] = "downloading"
    /\ sink' = [sink EXCEPT ![r][Len(sink[r])].returned = IF ok THEN "ok" ELSE "failed"]
    /\ downloadReturned(r, ok)
    /\ UNCHANGED <<mode, probe, offscreenDoc, offscreenReady, listener, timer, deadline, port>>
    /\ UNCHANGED <<loadVars, jobVars, csVars, pureVars, clickVars, msgVars>>

----------------------------------------------------------------------------
(* offscreen.js: loadFFmpeg *)

\* The jobs suspended in loadFFmpeg at "await loadPromise" (lines 38, 157).
Waiters == {j \in Req : jobPc[j] = "awaitload"}

\* ffmpeg.writeFile(inName, audioBytes) is invoked (line 221).
writeFile(j) ==
    jobPc' = [jobPc EXCEPT ![j] = "write"]

\* loadFFmpeg without the test of the cached promise (lines 36-40): every
\* call made before the engine is loaded starts a load attempt of its own.
loadFFmpeg_NoMemo(j) ==
    IF loaded
    THEN /\ writeFile(j)
         /\ UNCHANGED <<loadPromise, loading>>
    ELSE /\ loadPromise' = "promise"
         /\ loading' = "checkCore"
         /\ jobPc' = [jobPc EXCEPT ![j] = "awaitload"]

\* The call of loadFFmpeg by job j up to its first suspension (lines 28-44,
\* 157): return when loaded, else await the cached promise, else start a load
\* attempt, cache its promise and await it.  The attempt runs to its first
\* await, the fetch of coreURL (line 62).
loadFFmpeg(j) ==
    IF loaded
    THEN /\ writeFile(j)
         /\ UNCHANGED <<loadPromise, loading>>
    ELSE IF loadPromise # NULL
    THEN /\ jobPc' = [jobPc EXCEPT ![j] = "awaitload"]
         /\ UNCHANGED <<loadPromise, loading>>
    ELSE /\ loadPromise' = "promise"
         /\ loading' = "checkCore"
         /\ jobPc' = [jobPc EXCEPT ![j] = "awaitload"]

\* The end of the load attempt without the assignment of line 139: the
\* promise resolves and loaded stays false.
loadSucceeded_NotMarked ==
    /\ loading' = "idle"
    /\ jobPc' = [j \in Req |-> IF j \in Waiters THEN "write" ELSE jobPc[j]]
    /\ UNCHANGED <<loaded, loadPromise>>

\* The load attempt ends at line 141: loaded is set and its promise resolves.
\* Every job awaiting the promise resumes in the same microtask checkpoint
\* and invokes ffmpeg.writeFile (lines 215-221).
loadSucceeded ==
    /\ loaded' = TRUE
    /\ loading' = "idle"
    /\ jobPc' = [j \in Req |-> IF j \in Waiters THEN "write" ELSE jobPc[j]]
    /\ UNCHANGED loadPromise

\* The catch block of the load attempt without the reset of line 151: the
\* rejected promise stays cached.
loadFailed_Sticky ==
    /\ loading' = "idle"
    /\ jobPc' = [j \in Req |-> IF j \in Waiters THEN "edel1" ELSE jobPc[j]]
    /\ UNCHANGED <<loaded, loadPromise>>

\* The catch block of the load attempt (lines 142-153): the cached promise
\* is dropped and the promise rejects.  Every job awaiting it resumes in its
\* own catch block and invokes ffmpeg.deleteFile(inName) (lines 267-276).
loadFailed ==
    /\ loadPromise' = NULL
    /\ loading' = "idle"
    /\ jobPc' = [j \in Req |-> IF j \in Waiters THEN "edel1" ELSE jobPc[j]]
    /\ UNCHANGED loaded

\* The pre-flight without the pre-compilation of the WASM payload (lines
\* 80-98): ffmpeg.load is invoked as soon as both core files were fetched.
OnPreflightFetch_NoCompile(ok) ==
    /\ loading \in {"checkCore", "checkWasm"}
    /\ IF ok
       THEN /\ loading' = (IF loading = "checkCore" THEN "checkWasm" ELSE "ffload")
            /\ ffCalls' = (IF loading = "checkCore" THEN ffCalls ELSE ffCalls + 1)
            /\ UNCHANGED <<loaded, loadPromise, jobPc>>
       ELSE /\ loadFailed
            /\ UNCHANGED ffCalls
    /\ UNCHANGED <<posted, broadcast, bgVars, csVars, pureVars, clickVars, msgVars>>

\* A pre-flight fetch of a core file returns (lines 57-77): coreURL first,
\* then wasmURL (workerURL is undefined in the single-thread build, line 22).
OnPreflightFetch(ok) ==
    /\ loading \in {"checkCore", "checkWasm"}
    /\ IF ok
       THEN /\ loading' = (IF loading = "checkCore" THEN "checkWasm" ELSE "compile")
            /\ UNCHANGED <<loaded, loadPromise, jobPc>>
       ELSE loadFailed
    /\ UNCHANGED <<ffCalls, posted, broadcast, bgVars, csVars, pureVars, clickVars, msgVars>>

\* The WASM payload is fetched, checked for emptiness and compiled (lines
\* 80-98); on success ffmpeg.load is invoked under the 60 s timer (117-127).
OnWasmCompiled(ok) ==
    /\ loading = "compile"
    /\ IF ok
       THEN /\ loading' = "ffload"
            /\ ffCalls' = ffCalls + 1
            /\ UNCHANGED <<loaded, loadPromise, jobPc>>
       ELSE /\ loadFailed
            /\ UNCHANGED ffCalls
    /\ UNCHANGED <<posted, broadcast, bgVars, csVars, pureVars, clickVars, msgVars>>

\* ffmpeg.load of the running attempt returns or throws (lines 123-139).
OnFfmpegLoadReturn(ok) ==
    /\ loading = "ffload"
    /\ ffCalls' = ffCalls - 1
    /\ IF ok THEN loadSucceeded ELSE loadFailed
    /\ UNCHANGED <<posted, broadcast, bgVars, csVars, pureVars, clickVars, msgVars>>

\* The 60 s timer fires while ffmpeg.load is pending (lines 118-120): the
\* attempt fails, the call of ffmpeg.load is not aborted.
OnLoadTimeout ==
    /\ loading = "ffload"
    /\ loadFailed
    /\ UNCHANGED <<ffCalls, posted, broadcast, bgVars, csVars, pureVars, clickVars, msgVars>>

\* A stale ffmpeg.load whose return runs the catch block of its attempt
\* again and marks the session as not loaded.
OnStaleLoadReturn_ResetsSession ==
    /\ ffCalls > (IF loading = "ffload" THEN 1 ELSE 0)
    /\ ffCalls' = ffCalls - 1
    /\ loaded' = FALSE
    /\ loadPromise' = (IF loading = "idle" THEN NULL ELSE loadPromise)
    /\ UNCHANGED <<loading, jobVars, bgVars, csVars, pureVars, clickVars, msgVars>>

\* ffmpeg.load of an attempt that timed out returns or throws (lines
\* 128-132): its promise is already rejected, resolve and reject do nothing.
OnStaleLoadReturn ==
    /\ ffCalls > (IF loading = "ffload" THEN 1 ELSE 0)
    /\ ffCalls' = ffCalls - 1
    /\ UNCHANGED <<loaded, loadPromise, loading, jobVars, bgVars, csVars, pureVars, clickVars, msgVars>>

----------------------------------------------------------------------------
(* offscreen.js: the port.onMessage handler of a job *)

\* port.postMessage({ ok: false, error }) and the handler returns.
postFailure(j) ==
    /\ posted' = [posted EXCEPT ![j] = @ + 1]
    /\ jobPc' = [jobPc EXCEPT ![j] = "done"]

\* chrome.runtime.sendMessage({ type: 'FFMPEG_TRANSCODE_COMPLETE', ok: true,
\* filename, audioBytes }) (lines 258-266).
sendComplete(j) ==
    /\ broadcast' = [broadcast EXCEPT ![j] = @ + 1]
    /\ jobPc' = [jobPc EXCEPT ![j] = "bcast"]

\* The catch block of the handler up to its first await, which is
\* ffmpeg.deleteFile(inName) (lines 267-276).
catchTranscode(j) ==
    jobPc' = [jobPc EXCEPT ![j] = "edel1"]

\* The descriptor arrives (lines 166-191): the type is the one transcodeToWav
\* posts; an empty srcUrl is answered on the port, else the fetch starts.
OnPortMessage(j, hasUrl) ==
    /\ jobPc[j] = "sent"
    /\ IF hasUrl
       THEN /\ jobPc' = [jobPc EXCEPT ![j] = "fetch"]
            /\ UNCHANGED posted
       ELSE postFailure(j)
    /\ UNCHANGED <<broadcast, loadVars, bgVars, csVars, pureVars, clickVars, msgVars>>

\* The handler without the postMessage of line 209: an empty payload ends
\* the handler with no result message.
fetched_SilentEmpty(j, res) ==
    IF res = "ok"
    THEN /\ loadFFmpeg(j)
         /\ UNCHANGED posted
    ELSE IF res = "empty"
    THEN /\ jobPc' = [jobPc EXCEPT ![j] = "done"]
         /\ UNCHANGED <<posted, loadPromise, loading>>
    ELSE /\ postFailure(j)
         /\ UNCHANGED <<loadPromise, loading>>

\* The fetch of srcUrl settles (lines 191-215): res is "ok", "fail" (rejected
\* or not response.ok) or "empty" (zero-length payload).
fetched(j, res) ==
    IF res = "ok"
    THEN /\ loadFFmpeg(j)
         /\ UNCHANGED posted
    ELSE /\ postFailure(j)
         /\ UNCHANGED <<loadPromise, loading>>

\* The handler with loadFFmpeg called before the payload is examined: a
\* failed or empty fetch still starts a load attempt when none is cached.
OnFetched_LoadFirst(j, res) ==
    /\ jobPc[j] = "fetch"
    /\ IF res = "ok"
       THEN /\ loadFFmpeg(j)
            /\ UNCHANGED posted
       ELSE /\ postFailure(j)
            /\ IF ~loaded /\ loadPromise = NULL
               THEN /\ loadPromise' = "promise"
                    /\ loading' = "checkCore"
               ELSE UNCHANGED <<loadPromise, loading>>
    /\ UNCHANGED <<loaded, ffCalls, broadcast, bgVars, csVars, pureVars, clickVars, msgVars>>

OnFetched(j, res) ==
    /\ jobPc[j] = "fetch"
    /\ fetched(j, res)
    /\ UNCHANGED <<loaded, ffCalls, broadcast, bgVars, csVars, pureVars, clickVars, msgVars>>

\* ffmpeg.writeFile, ffmpeg.exec or ffmpeg.readFile returns or throws
\* (lines 221-241): the next operation is invoked, which after readFile is
\* ffmpeg.deleteFile(inName); a throw enters the catch block.
engineStep(j, ok) ==
    IF ~ok
    THEN catchTranscode(j)
    ELSE jobPc' = [jobPc EXCEPT ![j] =
                     IF jobPc[j] = "write" THEN "exec"
                     ELSE IF jobPc[j] = "exec" THEN "read" ELSE "del1"]

OnEngineStep(j, ok) ==
    /\ jobPc[j] \in {"write", "exec", "read"}
    /\ engineStep(j, ok)
    /\ UNCHANGED <<posted, broadcast, loadVars, bgVars, csVars, pureVars, clickVars, msgVars>>

\* The success path without the try/catch of lines 240-246 around the two
\* deletions: a throw of deleteFile reaches the catch block of the handler.
cleanup_FailureFails(j, ok) ==
    IF ~ok
    THEN /\ catchTranscode(j)
         /\ UNCHANGED broadcast
    ELSE IF jobPc[j] = "del1"
    THEN /\ jobPc' = [jobPc EXCEPT ![j] = "del2"]
         /\ UNCHANGED broadcast
    ELSE sendComplete(j)

\* A deleteFile of the success path returns or throws (lines 240-266): after
\* deleteFile(inName) returns, deleteFile(outName) is invoked; a throw of the
\* first one skips the second one.
cleanup(j, ok) ==
    IF jobPc[j] = "del1" /\ ok
    THEN /\ jobPc' = [jobPc EXCEPT ![j] = "del2"]
         /\ UNCHANGED broadcast
    ELSE sendComplete(j)

OnCleanup(j, ok) ==
    /\ jobPc[j] \in {"del1", "del2"}
    /\ cleanup(j, ok)
    /\ UNCHANGED <<posted, loadVars, bgVars, csVars, pureVars, clickVars, msgVars>>

\* A deleteFile of the catch block settles (lines 273-283); its rejection is
\* swallowed by .catch(() => {}), so deleteFile(outName) follows either way.
errorCleanup(j) ==
    IF jobPc[j] = "edel1"
    THEN /\ jobPc' = [jobPc EXCEPT ![j] = "edel2"]
         /\ UNCHANGED posted
    ELSE postFailure(j)

OnErrorCleanup(j) ==
    /\ jobPc[j] \in {"edel1", "edel2"}
    /\ errorCleanup(j)
    /\ UNCHANGED <<broadcast, loadVars, bgVars, csVars, pureVars, clickVars, msgVars>>

----------------------------------------------------------------------------
(* The completion message crosses from offscreen.js to background.js *)

\* messageListener that answers an invalid payload by handing the source URL
\* of the request to the download sink, as the original mode does.
messageListener_FallbackOriginal(r, j, valid) ==
    IF reqPc[r] # "waiting"
    THEN [pc |-> reqPc[r], sink |-> sink[r], response |-> response[r]]
    ELSE [pc |-> "downloading",
          sink |-> Append(sink[r], Payload(IF valid THEN "wav" ELSE "url", j)),
          response |-> response[r]]

\* messageListener of request r takes the completion message of job j
\* (background.js lines 109-145): the timer is cleared, the listener removed
\* and the promise, if pending, settled.  valid says that message.audioBytes
\* is a non-empty array: then the promise resolves with the bytes and the
\* filename of the message and the handler calls chrome.downloads.download
\* with them (lines 169-193); else it rejects with 'Invalid audio data'
\* (lines 129-131) and the handler answers from its .catch (line 217).
messageListener(r, j, valid) ==
    IF reqPc[r] # "waiting"
    THEN [pc |-> reqPc[r], sink |-> sink[r], response |-> response[r]]
    ELSE IF valid
    THEN [pc |-> "downloading", sink |-> Append(sink[r], Payload("wav", j)),
          response |-> response[r]]
    ELSE [pc |-> "responded", sink |-> sink[r],
          response |-> Append(response[r], FALSE)]

\* The delivery without the test of line 129: the listeners resolve with
\* whatever message.audioBytes holds.
OnTranscodeComplete_AcceptsInvalid(j, valid) ==
    LET after == [r \in Req |->
                    IF r \in Receivers
                    THEN messageListener(r, j, TRUE)
                    ELSE [pc |-> reqPc[r], sink |-> sink[r], response |-> response[r]]]
    IN  /\ jobPc[j] = "bcast"
        /\ jobPc' = [jobPc EXCEPT ![j] = "ack"]
        /\ listener' = [r \in Req |-> FALSE]
        /\ timer' = [r \in Req |->
                       IF r \in Receivers /\ timer[r] = "pending" THEN "none" ELSE timer[r]]
        /\ reqPc' = [r \in Req |-> after[r].pc]
        /\ sink' = [r \in Req |-> after[r].sink]
        /\ response' = [r \in Req |-> after[r].response]
        /\ completion' = [completion EXCEPT ![j] = IF valid THEN "valid" ELSE "invalid"]
        /\ UNCHANGED <<mode, probe, offscreenDoc, offscreenReady, deadline, port>>
        /\ UNCHANGED <<posted, broadcast, loadVars, csVars, pureVars, clickVars>>

\* The message of job j is delivered to every listener registered on
\* chrome.runtime.onMessage in the service worker.
OnTranscodeComplete(j, valid) ==
    LET after == [r \in Req |->
                    IF r \in Receivers
                    THEN messageListener(r, j, valid)
                    ELSE [pc |-> reqPc[r], sink |-> sink[r], response |-> response[r]]]
    IN  /\ jobPc[j] = "bcast"
        /\ jobPc' = [jobPc EXCEPT ![j] = "ack"]
        /\ listener' = [r \in Req |-> FALSE]
        /\ timer' = [r \in Req |->
                       IF r \in Receivers /\ timer[r] = "pending" THEN "none" ELSE timer[r]]
        /\ reqPc' = [r \in Req |-> after[r].pc]
        /\ sink' = [r \in Req |-> after[r].sink]
        /\ response' = [r \in Req |-> after[r].response]
        /\ completion' = [completion EXCEPT ![j] = IF valid THEN "valid" ELSE "invalid"]
        /\ UNCHANGED <<mode, probe, offscreenDoc, offscreenReady, deadline, port>>
        /\ UNCHANGED <<posted, broadcast, loadVars, csVars, pureVars, clickVars>>

\* port.disconnect() called right after chrome.runtime.sendMessage instead
\* of in its callback: the port closes before the message is delivered.
OnCompleteAck_BeforeDelivery(j) ==
    /\ \/ jobPc[j] = "bcast" /\ port[j] = "open"
       \/ jobPc[j] = "ack"
    /\ jobPc' = [jobPc EXCEPT ![j] = IF jobPc[j] = "ack" THEN "done" ELSE "bcast"]
    /\ port' = [port EXCEPT ![j] = "closed"]
    /\ UNCHANGED <<reqPc, mode, probe, offscreenDoc, offscreenReady, listener, timer,
                   deadline, sink, response>>
    /\ UNCHANGED <<posted, broadcast, loadVars, csVars, pureVars, clickVars, msgVars>>

\* The callback of sendMessage in offscreen.js (lines 263-266).
OnCompleteAck(j) ==
    /\ jobPc[j] = "ack"
    /\ jobPc' = [jobPc EXCEPT ![j] = "done"]
    /\ port' = [port EXCEPT ![j] = "closed"]
    /\ UNCHANGED <<reqPc, mode, probe, offscreenDoc, offscreenReady, listener, timer,
                   deadline, sink, response>>
    /\ UNCHANGED <<posted, broadcast, loadVars, csVars, pureVars, clickVars, msgVars>>

----------------------------------------------------------------------------
(* content-script.js: downloadAllFiles and safeSendMessage.  Item r of the   *)
(* batch is request r: its message carries items[r].url and .filename.      *)

\* safeSendMessage up to the return of its promise (lines 88-110): the timer
\* is set and the message handed to chrome.runtime.sendMessage.
safeSendMessage(r, timeoutMs) ==
    /\ cs' = [cs EXCEPT ![r] = "waiting"]
    /\ csTimeout' = [csTimeout EXCEPT ![r] = timeoutMs]

\* The timeout the loop passes to safeSendMessage (line 482).
batchTimeoutMs(m) ==
    IF m = "convert" THEN ConvertMessageTimeoutMs ELSE DefaultMessageTimeoutMs

\* The mode of the messages: settings.mode in the loop of lines 479-500,
\* 'original' in the loop of the catch block (lines 512-520).
messageMode == IF batchPc = "main" THEN batchMode ELSE "original"

\* The counting without the failCount++ of the catch block (line 498).
tally_CatchNotCounted(outcome) ==
    [success |-> successCount + (IF outcome = "ok" THEN 1 ELSE 0),
     fail |-> failCount + (IF outcome = "notok" THEN 1 ELSE 0)]

\* The counters after the outcome of one item (lines 491-499): outcome is
\* "ok" (response.ok), "notok" (any other response) or "rejected" (the
\* promise of safeSendMessage rejected and the catch of line 496 ran).
tally(outcome) ==
    [success |-> successCount + (IF outcome = "ok" THEN 1 ELSE 0),
     fail |-> failCount + (IF outcome = "ok" THEN 0 ELSE 1)]

\* The feedback shown after the loop (lines 502-506).
showBatchFeedback(success) ==
    feedback' = (IF success > 0 THEN "downloaded" ELSE "failed")

\* The promise of safeSendMessage for item r settles and downloadAllFiles
\* resumes.  In the loop of lines 479-500 the outcome is counted and the next
\* item sent, or the feedback shown after the last one.  In the loop of the
\* catch block (lines 511-523) a response leads to the next item and a
\* rejection leaves the loop.
settled(r, outcome) ==
    IF batchPc = "main"
    THEN /\ successCount' = tally(outcome).success
         /\ failCount' = tally(outcome).fail
         /\ IF r < NumReq
            THEN /\ cs' = [cs EXCEPT ![r] = outcome, ![r + 1] = "waiting"]
                 /\ csTimeout' = [csTimeout EXCEPT ![r + 1] = batchTimeoutMs(batchMode)]
                 /\ UNCHANGED <<batchPc, feedback>>
            ELSE /\ cs' = [cs EXCEPT ![r] = outcome]
                 /\ batchPc' = "done"
                 /\ showBatchFeedback(tally(outcome).success)
                 /\ UNCHANGED csTimeout
         /\ UNCHANGED batchMode
    ELSE /\ IF outcome # "rejected" /\ r < NumReq
            THEN /\ cs' = [cs EXCEPT ![r] = outcome, ![r + 1] = "waiting"]
                 /\ csTimeout' = [csTimeout EXCEPT ![r + 1] = DefaultMessageTimeoutMs]
                 /\ UNCHANGED batchPc
            ELSE /\ cs' = [cs EXCEPT ![r] = outcome]
                 /\ batchPc' = "done"
                 /\ UNCHANGED csTimeout
         /\ UNCHANGED <<batchMode, successCount, failCount, feedback>>

\* downloadAllFiles that sends the messages of all items without awaiting
\* the promise of one before the next.
startBatch_NoAwait(m) ==
    /\ batchPc' = "main"
    /\ batchMode' = m
    /\ cs' = [r \in Req |-> "waiting"]
    /\ csTimeout' = [r \in Req |-> batchTimeoutMs(m)]
    /\ UNCHANGED feedback

\* downloadAllFiles from the click to its first safeSendMessage (lines
\* 471-489): m is the mode that chrome.storage.sync.get returned.
startBatch(m) ==
    /\ batchPc' = "main"
    /\ batchMode' = m
    /\ safeSendMessage(1, batchTimeoutMs(m))
    /\ UNCHANGED feedback

\* The click on "Download all" (lines 471-489, 507-519).  When reading the
\* settings throws (m = "error") the catch block shows the failure and sends
\* the items in original mode with the default timeout.
OnDownloadAllClick(m) ==
    /\ batchPc = "idle"
    /\ IF m = "error"
       THEN /\ batchPc' = "fallback"
            /\ feedback' = "failed"
            /\ safeSendMessage(1, DefaultMessageTimeoutMs)
            /\ UNCHANGED batchMode
       ELSE startBatch(m)
    /\ UNCHANGED <<successCount, failCount>>
    /\ UNCHANGED <<bgVars, loadVars, jobVars, discVars, pureVars, clickVars, msgVars>>

\* The message of item r reaches the service worker, whose DOWNLOAD_AUDIO
\* handler runs to its first suspension.
OnMessageDelivered(r) ==
    /\ cs[r] = "waiting"
    /\ handleDownloadAudio(r, messageMode)
    /\ UNCHANGED <<csVars, pureVars, clickVars, msgVars>>

\* The callback of chrome.runtime.sendMessage runs with the response of the
\* service worker (lines 103-110): the timer is cleared, the promise resolves.
OnResponse(r) ==
    /\ cs[r] = "waiting"
    /\ response[r] # << >>
    /\ settled(r, IF response[r][1] THEN "ok" ELSE "notok")
    /\ UNCHANGED <<bgVars, loadVars, jobVars, discVars, pureVars, clickVars, msgVars>>

\* The timer of safeSendMessage fires (lines 97-100) and the promise rejects.
\* The waits of the service worker for the probe (5 s) and the completion
\* (90 s) end before it; chrome.downloads.download has no deadline.
OnMessageTimeout(r) ==
    /\ cs[r] = "waiting"
    /\ reqPc[r] = "downloading"
    /\ settled(r, "rejected")
    /\ UNCHANGED <<bgVars, loadVars, jobVars, discVars, pureVars, clickVars, msgVars>>

\* The message is not delivered: the extension context is invalid (lines
\* 92-94) or the callback runs with chrome.runtime.lastError (lines 106-108).
OnMessageError(r) ==
    /\ cs[r] = "waiting"
    /\ reqPc[r] = "new"
    /\ settled(r, "rejected")
    /\ UNCHANGED <<bgVars, loadVars, jobVars, discVars, pureVars, clickVars, msgVars>>

----------------------------------------------------------------------------
(* content-script.js: discovery.  The strings that isAudioFile inspects are  *)
(* sequences of characters.                                                 *)

Uppers == <<"A", "B", "C", "D", "E", "F", "G", "H", "I", "J", "K", "L", "M", "N",
           "O", "P", "Q", "R", "S", "T", "U", "V", "W", "X", "Y", "Z">>
Lowers == <<"a", "b", "c", "d", "e", "f", "g", "h", "i", "j", "k", "l", "m", "n",
           "o", "p", "q", "r", "s", "t", "u", "v", "w", "x", "y", "z">>

\* String.prototype.toLowerCase (line 260) and the i flag of the regular
\* expression (line 267), on the letters A-Z.
toLowerChar(c) ==
    IF \E i \in DOMAIN Uppers : Uppers[i] = c
    THEN Lowers[CHOOSE i \in DOMAIN Uppers : Uppers[i] = c]
    ELSE c
toLowerCase(str) == [i \in 1..Len(str) |-> toLowerChar(str[i])]

\* The array audioMimeTypes (lines 242-259).
audioMimeTypes ==
    { <<"a", "u", "d", "i", "o", "/", "m", "p", "e", "g">>,
      <<"a", "u", "d", "i", "o", "/", "m", "p", "3">>,
      <<"a", "u", "d", "i", "o", "/", "o", "g", "g">>,
      <<"a", "u", "d", "i", "o", "/", "w", "a", "v">>,
      <<"a", "u", "d", "i", "o", "/", "w", "a", "v", "e">>,
      <<"a", "u", "d", "i", "o", "/", "w", "e", "b", "m">>,
      <<"a", "u", "d", "i", "o", "/", "m", "p", "4">>,
      <<"a", "u", "d", "i", "o", "/", "a", "a", "c">>,
      <<"a", "u", "d", "i", "o", "/", "x", "-", "a", "a", "c">>,
      <<"a", "u", "d", "i", "o", "/", "f", "l", "a", "c">>,
      <<"a", "u", "d", "i", "o", "/", "x", "-", "f", "l", "a", "c">>,
      <<"a", "u", "d", "i", "o", "/", "o", "p", "u", "s">>,
      <<"a", "u", "d", "i", "o", "/", "3", "g", "p", "p">>,
      <<"a", "u", "d", "i", "o", "/", "a", "m", "r">>,
      <<"a", "u", "d", "i", "o", "/", "x", "-", "m", "s", "-", "w", "m", "a">>,
      <<"v", "i", "d", "e", "o", "/", "o", "g", "g">>,
      <<"v", "i", "d", "e", "o", "/", "w", "e", "b", "m">> }

\* The alternatives of the regular expression of line 267.
audioExtensions ==
    { <<"o", "g", "g">>,
      <<"o", "g", "a">>,
      <<"o", "p", "u", "s">>,
      <<"m", "p", "3">>,
      <<"w", "a", "v">>,
      <<"w", "a", "v", "e">>,
      <<"w", "e", "b", "m">>,
      <<"m", "4", "a">>,
      <<"a", "a", "c">>,
      <<"f", "l", "a", "c">>,
      <<"w", "m", "a">>,
      <<"a", "m", "r">>,
      <<"3", "g", "p">>,
      <<"3", "g", "a">> }

\* /\.(ogg|...|3ga)$/i.test(filename) (line 267): the string ends with a dot
\* followed by one of the alternatives, in any letter case.
extensionTest(filename) ==
    \E e \in audioExtensions :
        /\ Len(filename) > Len(e)
        /\ filename[Len(filename) - Len(e)] = "."
        /\ toLowerCase(SubSeq(filename, Len(filename) - Len(e) + 1, Len(filename))) = e

\* isAudioFile in which the MIME type, when present, decides alone.
isAudioFile_MimeDecides(filename, mimeType) ==
    IF mimeType # << >>
    THEN toLowerCase(mimeType) \in audioMimeTypes
    ELSE IF filename # << >> THEN extensionTest(filename) ELSE FALSE

\* isAudioFile (lines 239-272).  An absent (null, undefined or empty)
\* argument is the empty string.  A MIME type that is not in the array falls
\* through to the test of the extension.
isAudioFile(filename, mimeType) ==
    IF mimeType # << >> /\ toLowerCase(mimeType) \in audioMimeTypes
    THEN TRUE
    ELSE IF filename # << >> THEN extensionTest(filename) ELSE FALSE

\* The media files of a page.  name is the last path segment that the title
\* (REST media list) and the URL (Action API imageinfo) of a file share, mime
\* the MIME type of its imageinfo and audioType the audio_type of its item in
\* the media list; << >> and "" stand for an absent field.
MaxFiles == 2
CatFlac == <<"c", "a", "t", ".", "F", "l", "a", "c">>
CatSvg == <<"c", "a", "t", ".", "s", "v", "g">>
CatOgg == <<"c", "a", "t", "o", "g", "g">>
AudioOgg == <<"a", "u", "d", "i", "o", "/", "o", "g", "g">>
AudioXFlac == <<"A", "u", "d", "i", "o", "/", "X", "-", "F", "L", "A", "C">>
ApplicationOgg == <<"a", "p", "p", "l", "i", "c", "a", "t", "i", "o", "n", "/", "o", "g", "g">>
Names == {CatFlac, CatSvg, CatOgg}
Mimes == {<< >>, AudioOgg, AudioXFlac, ApplicationOgg}
AudioTypes == {"", "unknown", "generic"}
File == [name : Names, mime : Mimes, audioType : AudioTypes]
Pages == {{}} \cup {{f[i] : i \in 1..MaxFiles} : f \in [1..MaxFiles -> File]}

\* The filter of listAudioFileTitles (lines 280-285).
looksListed(it) ==
    (it.audioType # "" /\ it.audioType # "unknown") \/ isAudioFile(it.name, << >>)

\* The test of an imageinfo entry in resolveDirectUrls and
\* fallbackActionApiDiscovery (lines 307, 547).
accepted(ii) == ii.name # << >> /\ isAudioFile(ii.name, ii.mime)

\* An exception reaches the catch of the main function (lines 582-584).
catchDiscovery(stage) ==
    /\ discPc' = "done"
    /\ failedStage' = stage

\* fallbackActionApiDiscovery is called and issues its query (lines 528-542).
fallbackActionApiDiscovery ==
    /\ discPc' = "fallback"
    /\ queries' = [queries EXCEPT !.fallback = @ + 1]

\* The main function that runs the fallback whatever resolved holds.
afterResolve_AlwaysFallback(out) ==
    /\ fallbackActionApiDiscovery
    /\ UNCHANGED uiShown

\* The main function after the list and resolve stages, resolved being out
\* (lines 574-580): the fallback when it is empty, else createUI.
afterResolve(out) ==
    IF out = {}
    THEN /\ fallbackActionApiDiscovery
         /\ UNCHANGED uiShown
    ELSE /\ discPc' = "done"
         /\ uiShown' = TRUE
         /\ UNCHANGED queries

\* The content script starts on some page (lines 236, 561-566): without a
\* title it returns, else listAudioFileTitles issues the media-list request.
OnPageLoad(hasTitle) ==
    /\ discPc = "start"
    /\ IF hasTitle
       THEN /\ page' \in Pages
            /\ discPc' = "list"
            /\ queries' = [queries EXCEPT !.list = @ + 1]
       ELSE /\ page' = {}
            /\ discPc' = "done"
            /\ UNCHANGED queries
    /\ UNCHANGED <<files, resolved, examined, failedStage, uiShown>>
    /\ UNCHANGED <<bgVars, loadVars, jobVars, batchVars, pureVars, clickVars, msgVars>>

\* The media-list request settles (lines 274-287, 566-572).  res is "ok",
\* "notok" (a response with r.ok false, answered with []) or "throw" (fetch
\* rejected or r.json() threw).  With titles, resolveDirectUrls issues its
\* query; without, resolved stays [] and line 575 is reached.
OnListResponse(res) ==
    /\ discPc = "list"
    /\ IF res = "throw"
       THEN /\ catchDiscovery("list")
            /\ UNCHANGED <<files, queries, uiShown>>
       ELSE LET titles == IF res = "notok" THEN {}
                          ELSE {f \in page : looksListed(f)}
            IN  /\ files' = titles
                /\ UNCHANGED failedStage
                /\ IF titles # {}
                   THEN /\ discPc' = "resolve"
                        /\ queries' = [queries EXCEPT !.resolve = @ + 1]
                        /\ UNCHANGED uiShown
                   ELSE afterResolve({})
    /\ UNCHANGED <<page, resolved, examined>>
    /\ UNCHANGED <<bgVars, loadVars, jobVars, batchVars, pureVars, clickVars, msgVars>>

\* The query of resolveDirectUrls settles (lines 302-320).  res is "ok",
\* "nopages" (a body without query.pages) or "throw".
OnResolveResponse(res) ==
    /\ discPc = "resolve"
    /\ IF res = "throw"
       THEN /\ catchDiscovery("resolve")
            /\ UNCHANGED <<resolved, examined, queries, uiShown>>
       ELSE LET pages == IF res = "nopages" THEN {} ELSE files
                out == {f \in pages : accepted(f)}
            IN  /\ examined' = pages
                /\ resolved' = out
                /\ afterResolve(out)
                /\ UNCHANGED failedStage
    /\ UNCHANGED <<page, files>>
    /\ UNCHANGED <<bgVars, loadVars, jobVars, batchVars, pureVars, clickVars, msgVars>>

\* The query of fallbackActionApiDiscovery settles (lines 541-580).
OnFallbackResponse(res) ==
    /\ discPc = "fallback"
    /\ IF res = "throw"
       THEN /\ catchDiscovery("fallback")
            /\ UNCHANGED <<resolved, examined, uiShown>>
       ELSE LET pages == IF res = "nopages" THEN {} ELSE page
                out == {f \in pages : accepted(f)}
            IN  /\ examined' = pages
                /\ resolved' = out
                /\ uiShown' = (out # {})
                /\ discPc' = "done"
                /\ UNCHANGED failedStage
    /\ UNCHANGED <<page, files, queries>>
    /\ UNCHANGED <<bgVars, loadVars, jobVars, batchVars, pureVars, clickVars, msgVars>>

----------------------------------------------------------------------------
(* background.js: sanitizeFilename.  A name is a sequence of characters.    *)

\* substring(0, 255) (line 44)
MaxFilenameLength == 255

\* the class [<>:"/\\|?*] of line 40
invalidChars == {"<", ">", ":", "\"", "/", "\\", "|", "?", "*"}

\* the characters \s matches (line 41) and trim removes (line 43)
whitespace == {" ", "\t", "\n", "\r", "\f"}

\* .replace(/[<>:"/\\|?*]/g, '_') (line 40)
replaceInvalid(str) ==
    [i \in 1..Len(str) |-> IF str[i] \in invalidChars THEN "_" ELSE str[i]]

\* .replace(/\s+/g, ' ') (line 41): each maximal run of whitespace becomes
\* one space (the last character of the run is kept as the space)
collapseWhitespace(str) ==
    LET n == Len(str)
        marked == [i \in 1..n |->
                     IF str[i] \notin whitespace THEN str[i]
                     ELSE IF i < n /\ str[i + 1] \in whitespace THEN ""
                     ELSE " "]
        kept(c) == c # ""
    IN  SelectSeq(marked, kept)

\* .replace(/^\.+/, '') (line 42): the dots the string begins with are removed
removeLeadingDots(str) ==
    LET dots == Cardinality({i \in 1..Len(str) : \A j \in 1..i : str[j] = "."})
    IN  SubSeq(str, dots + 1, Len(str))

trimStart(str) ==
    LET blanks == Cardinality({i \in 1..Len(str) : \A j \in 1..i : str[j] \in whitespace})
    IN  SubSeq(str, blanks + 1, Len(str))

trimEnd(str) ==
    LET n == Len(str)
        blanks == Cardinality({i \in 1..n : \A j \in i..n : str[j] \in whitespace})
    IN  SubSeq(str, 1, n - blanks)

\* .trim() (line 43)
trim(str) == trimEnd(trimStart(str))

\* .substring(0, end)
substring(str, end) == SubSeq(str, 1, IF Len(str) < end THEN Len(str) ELSE end)

\* sanitizeFilename (lines 38-45)
sanitizeFilename(str) ==
    substring(trim(removeLeadingDots(collapseWhitespace(replaceInvalid(str)))),
              MaxFilenameLength)

\* The names the function is applied to: every string of at most MaxNameLen
\* characters over Chars, and each of them behind a run of letters that
\* brings it to the 255th character.
MaxNameLen == 3
Chars == {"a", ".", " ", "\t", "?"}
ShortNames == UNION {[1..n -> Chars] : n \in 0..MaxNameLen}
Padding == [i \in 1..(MaxFilenameLength - 2) |-> "a"]
Filenames == ShortNames \cup {Padding \o str : str \in ShortNames}

\* sanitizeFilename(originalFilename) (lines 163, 209)
OnSanitize ==
    /\ fnPc = "idle"
    /\ \E str \in Filenames :
        /\ rawName' = str
        /\ sanitized' = sanitizeFilename(str)
    /\ fnPc' = "once"
    /\ UNCHANGED <<resanitized, payloadVars, bgVars, loadVars, jobVars, csVars, clickVars, msgVars>>

\* sanitizeFilename applied to a name it returned: the handler sanitizes the
\* name of the converted file (line 185), which was built from a sanitized
\* base (line 163).
OnSanitizeAgain ==
    /\ fnPc = "once"
    /\ resanitized' = sanitizeFilename(sanitized)
    /\ fnPc' = "twice"
    /\ UNCHANGED <<rawName, sanitized, payloadVars, bgVars, loadVars, jobVars, csVars, clickVars, msgVars>>

----------------------------------------------------------------------------
(* The payload of FFMPEG_TRANSCODE_COMPLETE.  A JavaScript value is a       *)
(* record of its type and its elements: a Uint8Array holds integers of 8    *)
(* bits, an Array holds Numbers.                                            *)

\* the number of values an element of a Uint8Array has
ByteRange == 256

\* ToUint8, the conversion of a Number stored into a Uint8Array
toUint8(n) == n % ByteRange

\* The outputs ffmpeg.readFile returns: every byte sequence of at most
\* MaxBytes bytes over ByteSamples.
MaxBytes == 3
ByteSamples == {0, 1, 127, 128, ByteRange - 1}
Outputs == UNION {[1..n -> ByteSamples] : n \in 0..MaxBytes}

\* Array.from(out) (offscreen.js:249): an Array whose elements are the
\* values of the elements of out
ArrayFrom_Omitted(typed) == typed

ArrayFrom(typed) ==
    [type |-> "Array", elems |-> [i \in 1..Len(typed.elems) |-> typed.elems[i]]]

\* chrome.runtime.sendMessage hands the listener a JSON copy of the message:
\* an Array of Numbers arrives as an Array of the same Numbers, a typed
\* array arrives as an object keyed by index.
jsonCopy(value) ==
    IF value.type = "Array" THEN value
    ELSE [type |-> "Object", elems |-> value.elems]

\* new Uint8Array(audioBytes) (background.js:135): as many elements as the
\* Array has, each converted by ToUint8
newUint8Array(array) ==
    [type |-> "Uint8Array",
     elems |-> [i \in 1..Len(array.elems) |-> toUint8(array.elems[i])]]

\* const out = await ffmpeg.readFile(outName) (offscreen.js:236)
OnReadFile ==
    /\ payloadPc = "idle"
    /\ \E bytes \in Outputs : engineOut' = [type |-> "Uint8Array", elems |-> bytes]
    /\ payloadPc' = "read"
    /\ UNCHANGED <<audioBytes, uint8Array, fnVars, bgVars, loadVars, jobVars, csVars, clickVars, msgVars>>

\* chrome.runtime.sendMessage({ ..., audioBytes: outputBytes })
\* (offscreen.js:249-263)
OnSendComplete ==
    /\ payloadPc = "read"
    /\ audioBytes' = jsonCopy(ArrayFrom(engineOut))
    /\ payloadPc' = "sent"
    /\ UNCHANGED <<engineOut, uint8Array, fnVars, bgVars, loadVars, jobVars, csVars, clickVars, msgVars>>

\* messageListener (background.js:129-143): a payload that is not a
\* non-empty Array is rejected as invalid, any other is rebuilt
OnReceiveComplete ==
    /\ payloadPc = "sent"
    /\ IF audioBytes.type # "Array" \/ Len(audioBytes.elems) = 0
       THEN /\ payloadPc' = "rejected"
            /\ UNCHANGED uint8Array
       ELSE /\ uint8Array' = newUint8Array(audioBytes)
            /\ payloadPc' = "rebuilt"
    /\ UNCHANGED <<engineOut, audioBytes, fnVars, bgVars, loadVars, jobVars, csVars, clickVars, msgVars>>

----------------------------------------------------------------------------
(* content-script.js: downloadFile, one click on the button of one item.    *)
(* The message of the try block is request 1; the message of the catch      *)
(* block is the next request that was not sent yet.                         *)

\* timeoutMs of line 438
clickTimeoutMs(m) ==
    IF m = "convert" THEN ConvertMessageTimeoutMs ELSE DefaultMessageTimeoutMs

\* The mode of the message: the mode read from the settings in the try
\* block (line 447), 'original' in the catch block (line 464).
clickMessageMode == IF clickPc = "primary" THEN clickMode ELSE "original"

\* The promise of safeSendMessage for request r settles and downloadFile
\* resumes (lines 450-467).  In the try block a response shows the outcome
\* on the button and a rejection enters the catch block, which shows the
\* failure and sends the item again in original mode; a settled fallback
\* message ends the function.
clickSettled(r, outcome) ==
    IF clickPc = "primary" /\ outcome = "rejected"
    THEN /\ clickFeedback' = "failed"
         /\ clickPc' = "fallback"
         /\ cs' = [cs EXCEPT ![r] = outcome, ![r + 1] = "waiting"]
         /\ csTimeout' = [csTimeout EXCEPT ![r + 1] = DefaultMessageTimeoutMs]
    ELSE /\ clickPc' = "done"
         /\ cs' = [cs EXCEPT ![r] = outcome]
         /\ clickFeedback' = (IF clickPc = "fallback" THEN clickFeedback
                              ELSE IF outcome = "ok" THEN "downloaded" ELSE "failed")
         /\ UNCHANGED csTimeout

\* The click (lines 428-448): m is the mode chrome.storage.sync.get returned.
\* When reading the settings throws (m = "error") the catch block runs at
\* once (lines 455-465).
OnDownloadClick(m) ==
    /\ clickPc = "idle"
    /\ IF m = "error"
       THEN /\ clickPc' = "fallback"
            /\ clickFeedback' = "failed"
            /\ safeSendMessage(1, DefaultMessageTimeoutMs)
            /\ UNCHANGED clickMode
       ELSE /\ clickPc' = "primary"
            /\ clickMode' = m
            /\ clickFeedback' = (IF m = "convert" THEN "preparing" ELSE "none")
            /\ safeSendMessage(1, clickTimeoutMs(m))
    /\ UNCHANGED <<batchPc, batchMode, successCount, failCount, feedback>>
    /\ UNCHANGED <<bgVars, loadVars, jobVars, discVars, pureVars, msgVars>>

\* The message of request r reaches the service worker, whose DOWNLOAD_AUDIO
\* handler runs to its first suspension.
OnClickMessageDelivered(r) ==
    /\ clickPc \in {"primary", "fallback"}
    /\ cs[r] = "waiting"
    /\ handleDownloadAudio(r, clickMessageMode)
    /\ UNCHANGED <<csVars, pureVars, clickVars, msgVars>>

\* The callback of chrome.runtime.sendMessage runs with the response of the
\* service worker (lines 103-110).
OnClickResponse(r) ==
    /\ clickPc \in {"primary", "fallback"}
    /\ cs[r] = "waiting"
    /\ response[r] # << >>
    /\ clickSettled(r, IF response[r][1] THEN "ok" ELSE "notok")
    /\ UNCHANGED <<clickMode, batchPc, batchMode, successCount, failCount, feedback>>
    /\ UNCHANGED <<bgVars, loadVars, jobVars, discVars, pureVars, msgVars>>

\* The timer of safeSendMessage fires (lines 97-100) and the promise rejects.
\* The waits of the service worker for the probe (5 s) and the completion
\* (90 s) end before it; chrome.downloads.download has no deadline.
OnClickMessageTimeout(r) ==
    /\ clickPc \in {"primary", "fallback"}
    /\ cs[r] = "waiting"
    /\ reqPc[r] = "downloading"
    /\ clickSettled(r, "rejected")
    /\ UNCHANGED <<clickMode, batchPc, batchMode, successCount, failCount, feedback>>
    /\ UNCHANGED <<bgVars, loadVars, jobVars, discVars, pureVars, msgVars>>

\* The message is not delivered: the extension context is invalid (lines
\* 92-94) or the callback runs with chrome.runtime.lastError (lines 106-108).
OnClickMessageError(r) ==
    /\ clickPc \in {"primary", "fallback"}
    /\ cs[r] = "waiting"
    /\ reqPc[r] = "new"
    /\ clickSettled(r, "rejected")
    /\ UNCHANGED <<clickMode, batchPc, batchMode, successCount, failCount, feedback>>
    /\ UNCHANGED <<bgVars, loadVars, jobVars, discVars, pureVars, msgVars>>

----------------------------------------------------------------------------
Next ==
    \/ \E r \in Req, m \in {"original", "convert"} : OnDownloadAudio(r, m)
    \/ \E r \in Req, ans \in {"ready", "notready", "error"} : OnPingResponse(r, ans)
    \/ \E r \in Req : PingTimeout(r)
    \/ \E r \in Req, ans \in {"ready", "notready", "error"} : OnLatePingResponse(r, ans)
    \/ \E r \in Req : OnTranscodeTimeout(r)
    \/ \E r \in Req, ok \in BOOLEAN : OnDownloadDone(r, ok)
    \/ \E ok \in BOOLEAN : OnPreflightFetch(ok)
    \/ \E ok \in BOOLEAN : OnWasmCompiled(ok)
    \/ \E ok \in BOOLEAN : OnFfmpegLoadReturn(ok)
    \/ OnLoadTimeout
    \/ OnStaleLoadReturn
    \/ \E j \in Req, hasUrl \in BOOLEAN : OnPortMessage(j, hasUrl)
    \/ \E j \in Req, res \in {"ok", "fail", "empty"} : OnFetched(j, res)
    \/ \E j \in Req, ok \in BOOLEAN : OnEngineStep(j, ok)
    \/ \E j \in Req, ok \in BOOLEAN : OnCleanup(j, ok)
    \/ \E j \in Req : OnErrorCleanup(j)
    \/ \E j \in Req, valid \in BOOLEAN : OnTranscodeComplete(j, valid)
    \/ \E j \in Req : OnCompleteAck(j)

\* One run of the content script's discovery on one page.
DiscNext ==
    \/ \E hasTitle \in BOOLEAN : OnPageLoad(hasTitle)
    \/ \E res \in {"ok", "notok", "throw"} : OnListResponse(res)
    \/ \E res \in {"ok", "nopages", "throw"} : OnResolveResponse(res)
    \/ \E res \in {"ok", "nopages", "throw"} : OnFallbackResponse(res)

\* One tab runs one batch and no other DOWNLOAD_AUDIO message is sent.
BatchNext ==
    \/ \E m \in {"original", "convert", "error"} : OnDownloadAllClick(m)
    \/ \E r \in Req : OnMessageDelivered(r)
    \/ \E r \in Req : OnResponse(r)
    \/ \E r \in Req : OnMessageTimeout(r)
    \/ \E r \in Req : OnMessageError(r)
    \/ \E r \in Req, ans \in {"ready", "notready", "error"} : OnPingResponse(r, ans)
    \/ \E r \in Req : PingTimeout(r)
    \/ \E r \in Req, ans \in {"ready", "notready", "error"} : OnLatePingResponse(r, ans)
    \/ \E r \in Req : OnTranscodeTimeout(r)
    \/ \E r \in Req, ok \in BOOLEAN : OnDownloadDone(r, ok)
    \/ \E ok \in BOOLEAN : OnPreflightFetch(ok)
    \/ \E ok \in BOOLEAN : OnWasmCompiled(ok)
    \/ \E ok \in BOOLEAN : OnFfmpegLoadReturn(ok)
    \/ OnLoadTimeout
    \/ OnStaleLoadReturn
    \/ \E j \in Req, hasUrl \in BOOLEAN : OnPortMessage(j, hasUrl)
    \/ \E j \in Req, res \in {"ok", "fail", "empty"} : OnFetched(j, res)
    \/ \E j \in Req, ok \in BOOLEAN : OnEngineStep(j, ok)
    \/ \E j \in Req, ok \in BOOLEAN : OnCleanup(j, ok)
    \/ \E j \in Req : OnErrorCleanup(j)
    \/ \E j \in Req, valid \in BOOLEAN : OnTranscodeComplete(j, valid)
    \/ \E j \in Req : OnCompleteAck(j)

Spec == Init /\ [][Next]_vars

\* The timers the service worker sets with setTimeout fire unless they are
\* cleared first.
FairSpec == Spec /\ \A r \in Req : WF_vars(OnTranscodeTimeout(r))

\* Every handler that can run does run: messages are delivered, timers
\* fire, and the calls the handlers await settle.
LiveSpec == Spec /\ WF_vars(Next)

BatchSpec == Init /\ [][BatchNext]_vars
DiscoverySpec == Init /\ [][DiscNext]_vars

\* sanitizeFilename applied to one name, then to its own result.
SanitizeNext ==
    \/ OnSanitize
    \/ OnSanitizeAgain

SanitizeSpec == Init /\ [][SanitizeNext]_vars

\* One click on the download button of one item; no other DOWNLOAD_AUDIO
\* message is sent.
ClickNext ==
    \/ \E m \in {"original", "convert", "error"} : OnDownloadClick(m)
    \/ \E r \in Req : OnClickMessageDelivered(r)
    \/ \E r \in Req : OnClickResponse(r)
    \/ \E r \in Req : OnClickMessageTimeout(r)
    \/ \E r \in Req : OnClickMessageError(r)
    \/ \E r \in Req, ans \in {"ready", "notready", "error"} : OnPingResponse(r, ans)
    \/ \E r \in Req : PingTimeout(r)
    \/ \E r \in Req, ans \in {"ready", "notready", "error"} : OnLatePingResponse(r, ans)
    \/ \E r \in Req : OnTranscodeTimeout(r)
    \/ \E r \in Req, ok \in BOOLEAN : OnDownloadDone(r, ok)
    \/ \E ok \in BOOLEAN : OnPreflightFetch(ok)
    \/ \E ok \in BOOLEAN : OnWasmCompiled(ok)
    \/ \E ok \in BOOLEAN : OnFfmpegLoadReturn(ok)
    \/ OnLoadTimeout
    \/ OnStaleLoadReturn
    \/ \E j \in Req, hasUrl \in BOOLEAN : OnPortMessage(j, hasUrl)
    \/ \E j \in Req, res \in {"ok", "fail", "empty"} : OnFetched(j, res)
    \/ \E j \in Req, ok \in BOOLEAN : OnEngineStep(j, ok)
    \/ \E j \in Req, ok \in BOOLEAN : OnCleanup(j, ok)
    \/ \E j \in Req : OnErrorCleanup(j)
    \/ \E j \in Req, valid \in BOOLEAN : OnTranscodeComplete(j, valid)
    \/ \E j \in Req : OnCompleteAck(j)

ClickSpec == Init /\ [][ClickNext]_vars

\* One output of the engine travels to the coordinator.
PayloadNext ==
    \/ OnReadFile
    \/ OnSendComplete
    \/ OnReceiveComplete

PayloadSpec == Init /\ [][PayloadNext]_vars

----------------------------------------------------------------------------
(* Engine session: load *)

\* A step in which job j calls loadFFmpeg and suspends on the load promise.
CallsLoad(j) == jobPc[j] = "fetch" /\ jobPc'[j] = "awaitload"

\* A step in which a load attempt starts, and one in which it settles.
LoadStarts == loading = "idle" /\ loading' # "idle"
LoadSettles == loading # "idle" /\ loading' = "idle"

\* C1: jobs that call loadFFmpeg while a load is in progress start no second
\* load attempt (no second pre-flight, no second ffmpeg.load); one attempt
\* serves all of them, and when it settles every waiting job continues to
\* writeFile if it succeeded and every waiting job fails if it failed.
SingleFlightLoad ==
    /\ [] (Waiters # {} => loading # "idle" /\ loadPromise # NULL /\ ~loaded)
    /\ [][ /\ \A j \in Req : CallsLoad(j) /\ loadPromise # NULL => UNCHANGED loadVars
           /\ LoadStarts => loading' = "checkCore" /\ Waiters = {}
           /\ ffCalls' > ffCalls => loading = "compile" /\ loading' = "ffload"
           /\ \A j \in Waiters :
                 IF LoadSettles
                 THEN jobPc'[j] = (IF loaded' THEN "write" ELSE "edel1")
                 ELSE jobPc'[j] = "awaitload" ]_vars

\* Two jobs wait for the same load attempt.
SingleFlightLoadWitness == Cardinality(Waiters) >= 2

\* C2: at most one invocation of ffmpeg.load is outstanding.
OneLoadOutstanding == ffCalls <= 1

\* C3: the session is never left in a failed state: when no load attempt is
\* running and the engine is not loaded, no load promise is cached, and a call
\* of loadFFmpeg in that state starts a fresh attempt.
ResetAfterLoadFailure ==
    /\ [] (loading = "idle" /\ ~loaded => loadPromise = NULL)
    /\ [][ /\ LoadSettles /\ ~loaded' => loadPromise' = NULL /\ ~loaded
           /\ \A j \in Req : CallsLoad(j) /\ loadPromise = NULL
                 => ~loaded /\ LoadStarts /\ loadPromise' # NULL ]_vars

\* The engine is Ready although the ffmpeg.load of an earlier attempt, which
\* failed by the 60 s timeout, has not returned: a retry succeeded.
ResetAfterLoadFailureWitness == loaded /\ ffCalls > 0

----------------------------------------------------------------------------
(* Engine session: jobs *)

\* Job j has an engine operation of the transcode in progress or pending.
Transcoding(j) == jobPc[j] \in {"write", "exec", "read", "del1", "del2"}
\* Job j has invoked an engine operation that has not returned.
InEngine(j) == Transcoding(j) \/ jobPc[j] \in {"edel1", "edel2"}

\* C4: the engine never executes two transcode jobs at overlapping times:
\* while one job is between its writeFile and the end of its cleanup, no
\* other job has a writeFile, exec, readFile or deleteFile in progress.
JobsSerialized ==
    \A j, k \in Req : j # k => ~(Transcoding(j) /\ InEngine(k))

\* The handler of job j has returned (after the callback of sendMessage on
\* the success path).
Finished(j) == jobPc[j] = "done"
\* The handler of job j has passed the statement that produces its result.
Answered(j) == jobPc[j] \in {"bcast", "ack", "done"}

\* C5: whatever the outcome of a job, its result is emitted on the broadcast
\* channel (chrome.runtime.sendMessage, type FFMPEG_TRANSCODE_COMPLETE).
ResultOnBroadcast ==
    \A j \in Req : Finished(j) => broadcast[j] >= 1

\* C9: every job produces exactly one result message, never zero and never
\* two, on every path through the handler.
OneResultPerJob ==
    \A j \in Req : posted[j] + broadcast[j] = (IF Answered(j) THEN 1 ELSE 0)

\* One job has ended with a failure on the port and another with a
\* completion broadcast.
OneResultPerJobWitness ==
    \E j, k \in Req : /\ Finished(j) /\ posted[j] = 1
                      /\ Finished(k) /\ broadcast[k] = 1

----------------------------------------------------------------------------
(* Coordinator *)

\* A step in which the completion message of job j is delivered.
Delivers(j) == jobPc[j] = "bcast" /\ jobPc'[j] = "ack"

\* C6: a convert dispatch is resolved only by the completion of its own job:
\* the bytes and filename handed to the download sink for request r are those
\* produced from the source URL of request r.
OwnResultOnly ==
    \A r \in Req : \A i \in 1..Len(sink[r]) : sink[r][i].of = r

\* C7: a completion message delivered after the dispatch of its job timed
\* out has no effect: it causes no download and changes the outcome of no
\* dispatch.
LateCompletionDiscarded ==
    [][ \A j \in Req : Delivers(j) /\ timer[j] = "fired"
           => UNCHANGED <<reqPc, sink, response>> ]_vars

\* C8: a pending convert dispatch does not stay pending forever: when its
\* deadline expires it rejects and the requester receives exactly one
\* response, with ok = false, which nothing changes afterwards.
DispatchTimesOut ==
    /\ \A r \in Req : reqPc[r] = "waiting" ~> reqPc[r] # "waiting"
    /\ [][ \A r \in Req : timer[r] = "pending" /\ timer'[r] = "fired"
              => /\ reqPc[r] = "waiting"
                 /\ reqPc'[r] = "responded"
                 /\ response'[r] = <<FALSE>> ]_vars
    /\ [] \A r \in Req :
             /\ Len(response[r]) <= 1
             /\ timer[r] = "fired"
                   => reqPc[r] = "responded" /\ response[r] = <<FALSE>> /\ sink[r] = << >>

\* A dispatch timed out while its job was still running in the engine.
DispatchTimesOutWitness ==
    \E r \in Req : timer[r] = "fired" /\ response[r] = <<FALSE>> /\ ~Answered(r)

\* C10: the job channel of a request is opened, and its descriptor sent, only
\* after the readiness probe was answered ready; when the probe is answered
\* not ready, fails or times out, the dispatch fails and no channel is opened.
ChannelOnlyAfterProbe ==
    \A r \in Req :
        /\ (port[r] # "none" \/ jobPc[r] # "none" \/ listener[r] \/ timer[r] # "none")
              => probe[r] = "ready"
        /\ probe[r] \in {"failed", "timeout", "late"}
              => /\ port[r] = "none" /\ jobPc[r] = "none"
                 /\ reqPc[r] = "responded" /\ response[r] = <<FALSE>>

\* One request failed at the probe and opened no channel, another one was
\* answered ready and opened its channel.
ChannelOnlyAfterProbeWitness ==
    \E r, q \in Req : /\ probe[r] \in {"failed", "timeout", "late"} /\ port[r] = "none"
                      /\ probe[q] = "ready" /\ port[q] = "open"

----------------------------------------------------------------------------
(* Content script: batch download *)

\* The items whose message was sent, whose promise has settled, and whose
\* promise settled with anything but a response with ok = true.
Attempted == {r \in Req : csTimeout[r] # 0}
Settled == {r \in Req : cs[r] \in {"ok", "notok", "rejected"}}
Failed == {r \in Req : cs[r] \in {"notok", "rejected"}}

InProgress(r) == reqPc[r] \in {"probe", "waiting", "downloading"}

\* C12 as stated: the message of a later item of the batch is sent only
\* after the dispatch of every earlier item has fully resolved in the
\* service worker, so no two dispatches of the batch are in progress at once.
BatchDispatchesSequential ==
    \A r, q \in Req : r < q /\ q \in Attempted => ~InProgress(r)

\* C12 amended: the message of a later item is sent only after the promise
\* of safeSendMessage of every earlier item has settled, so at most one item
\* is awaited at a time.  An earlier item that settled with a response has
\* its dispatch resolved; one whose dispatch is still in progress was
\* rejected by the timer of safeSendMessage while the handler awaited
\* chrome.downloads.download.
BatchAwaitsEachItem ==
    /\ Cardinality({r \in Req : cs[r] = "waiting"}) <= 1
    /\ \A r, q \in Req : r < q /\ q \in Attempted =>
           /\ r \in Settled
           /\ cs[r] \in {"ok", "notok"} => reqPc[r] = "responded"
           /\ InProgress(r) => cs[r] = "rejected" /\ reqPc[r] = "downloading"

\* Item 2 is awaited while the handler of item 1, whose promise the timer
\* rejected, still awaits chrome.downloads.download.
BatchAwaitsEachItemWitness ==
    \E r, q \in Req : /\ r < q /\ cs[q] = "waiting" /\ reqPc[q] # "new"
                      /\ cs[r] = "rejected" /\ reqPc[r] = "downloading"

----------------------------------------------------------------------------
(* Coordinator: outcome of a dispatch *)

\* The convert dispatch of request r has failed: at the probe, by the timer,
\* by an invalid payload or by a throw of the download sink.
ConvertFailed(r) ==
    /\ mode[r] = "convert"
    /\ reqPc[r] = "responded"
    /\ \A i \in 1..Len(sink[r]) : sink[r][i].returned # "ok"

\* C13: a convert dispatch that fails is answered ok = false; the download
\* sink is never called with the source URL for a convert request, and after
\* the failure the coordinator does nothing more for the request: no second
\* probe, channel, descriptor or timer, no sink call, no other response.
ConvertFailureIsFinal ==
    /\ [] \A r \in Req :
            /\ mode[r] = "convert" =>
                  \A i \in 1..Len(sink[r]) : sink[r][i].kind = "wav"
            /\ ConvertFailed(r) => response[r] = <<FALSE>>
    /\ [][ \A r \in Req : ConvertFailed(r) =>
              /\ reqPc'[r] = reqPc[r] /\ response'[r] = response[r]
              /\ sink'[r] = sink[r] /\ deadline'[r] = deadline[r]
              /\ probe'[r] \in {probe[r], "late"}
              /\ port'[r] \in {port[r], "closed"}
              /\ timer'[r] \in {timer[r], "none", "fired"}
              /\ jobPc'[r] = "sent" => jobPc[r] = "sent" ]_vars

\* One convert dispatch failed because the download sink threw, another one
\* by its timer.
ConvertFailureIsFinalWitness ==
    \E r, q \in Req :
        /\ ConvertFailed(r) /\ Len(sink[r]) = 1 /\ sink[r][1].returned = "failed"
        /\ ConvertFailed(q) /\ timer[q] = "fired"

\* C14: an original-mode dispatch calls the download sink exactly once, with
\* the source URL and filename of its own request, and leaves the engine side
\* alone: the step that starts it changes neither the offscreen document and
\* its ready flag nor any probe, channel, listener, timer, load or job, and
\* the request never has a probe, channel, listener, timer or job.
OriginalBypassesEngine ==
    /\ [] \A r \in Req : mode[r] = "original" =>
            /\ Len(sink[r]) = 1 /\ sink[r][1].kind = "url" /\ sink[r][1].of = r
            /\ probe[r] = "none" /\ port[r] = "none" /\ jobPc[r] = "none"
            /\ timer[r] = "none" /\ deadline[r] = 0 /\ ~listener[r]
    /\ [][ \A r \in Req : mode[r] = "none" /\ mode'[r] = "original" =>
              /\ sink'[r] = <<Payload("url", r)>>
              /\ UNCHANGED <<offscreenDoc, offscreenReady, probe, port, listener,
                             timer, deadline, loadVars, jobVars>> ]_vars

\* An original dispatch was answered ok = true and no offscreen document was
\* created.
OriginalBypassesEngineWitness ==
    \E r \in Req : mode[r] = "original" /\ response[r] = <<TRUE>> /\ ~offscreenDoc

\* C15: the coordinator never sends more than one response for a request and
\* a handler that has ended has sent exactly one; the response has ok = true
\* if and only if the download sink was called exactly once for the request
\* and that call returned without throwing.
OneResponsePerRequest ==
    \A r \in Req :
        /\ Len(response[r]) = (IF reqPc[r] = "responded" THEN 1 ELSE 0)
        /\ response[r] = <<TRUE>>
              <=> (Len(sink[r]) = 1 /\ sink[r][1].returned = "ok")

\* One request was answered ok = true after its sink call returned, another
\* one ok = false after its sink call threw.
OneResponsePerRequestWitness ==
    \E r, q \in Req :
        /\ response[r] = <<TRUE>> /\ sink[r][1].returned = "ok"
        /\ response[q] = <<FALSE>> /\ Len(sink[q]) = 1 /\ sink[q][1].returned = "failed"

\* C16: when the engine has reported the failure of job r, the dispatch of
\* request r fails with that report and not by its timer: the timer of a
\* dispatch never fires after the failure report of its job was posted.
EngineFailureFailsDispatch ==
    [][ \A r \in Req : timer[r] = "pending" /\ timer'[r] = "fired"
           => posted[r] = 0 ]_vars

----------------------------------------------------------------------------
(* Deadlines *)

\* Job j is the first job after a load: it waits for the load to end.
FirstAfterLoad(j) == jobPc[j] = "awaitload"

\* C17 as stated: the coordinator awaits the completion of a job with a
\* deadline of 120 s when the job is the first after a load, 90 s otherwise.
DeadlineByLoad ==
    \A r \in Req : deadline[r] # 0 =>
        deadline[r] = (IF FirstAfterLoad(r) THEN 120000 ELSE 90000)

\* C17 amended: the coordinator awaits the completion of every job with a
\* deadline of 90 s, first job after a load or not; the 120 s deadline is
\* that of the content script's wait for the response to a convert request,
\* which is 90 s for a request of another mode.
DeadlineByMode ==
    \A r \in Req :
        /\ deadline[r] = (IF probe[r] = "ready" THEN 90000 ELSE 0)
        /\ timer[r] # "none" => deadline[r] = 90000
        /\ r \in Attempted /\ mode[r] # "none" =>
              csTimeout[r] = (IF mode[r] = "convert" THEN 120000 ELSE 90000)

\* The first job after a load is awaited by the coordinator with a 90 s
\* timer and by the content script with a 120 s timer.
DeadlineByModeWitness ==
    \E r \in Req : /\ FirstAfterLoad(r) /\ timer[r] = "pending"
                   /\ deadline[r] = 90000 /\ csTimeout[r] = 120000

----------------------------------------------------------------------------
(* Content script: discovery *)

\* A step in which the list and resolve stages end without an exception.
PrimaryEnds ==
    /\ discPc \in {"list", "resolve"}
    /\ discPc' \in {"fallback", "done"}
    /\ failedStage' = "none"

\* C18: in one discovery run the fallback query is issued if and only if the
\* list and resolve stages ended, without an exception, with zero candidates
\* (an empty list, or a list whose entries were all rejected at resolve), and
\* then exactly once;
\* when they ended with a candidate the UI is created and no fallback query
\* is ever issued.
FallbackIffNoCandidates ==
    /\ [] (queries.fallback <= 1)
    /\ [] (discPc = "fallback" => resolved = {} /\ queries.fallback = 1)
    /\ [] (discPc = "done" /\ queries.fallback = 0 /\ uiShown
              => resolved # {} /\ resolved \subseteq files)
    /\ [][ /\ PrimaryEnds =>
                 IF resolved' = {}
                 THEN discPc' = "fallback" /\ queries'.fallback = 1
                 ELSE discPc' = "done" /\ queries'.fallback = 0 /\ uiShown'
           /\ queries'.fallback # queries.fallback => PrimaryEnds /\ resolved' = {}
        ]_vars

\* A non-empty list whose entries were all rejected at resolve: the fallback
\* query was issued once and found a candidate.
FallbackIffNoCandidatesWitness ==
    /\ discPc = "done" /\ failedStage = "none"
    /\ files # {} /\ examined = page /\ resolved # {}
    /\ queries = [list |-> 1, resolve |-> 1, fallback |-> 1]

\* C19: a network or parse failure in the list or the resolve stage counts as
\* zero candidates and the fallback query is still issued; a failure in the
\* fallback stage yields an empty result; no failure creates any UI.
FailureProceedsToFallback ==
    /\ failedStage \in {"list", "resolve"} => queries.fallback = 1
    /\ failedStage = "fallback" => resolved = {}
    /\ failedStage # "none" => ~uiShown

\* The entry has a MIME type that is in the allowlist; its name ends with an
\* extension of the extension set.
MimeAllowed(f) == f.mime # << >> /\ toLowerCase(f.mime) \in audioMimeTypes
ExtensionAllowed(f) == extensionTest(f.name)

\* C20 as stated: the filter accepts an entry if and only if its MIME type is
\* in the allowlist, or its MIME type is absent and its extension is in the
\* extension set; an entry whose MIME type is present but not in the
\* allowlist is rejected.
FilterMimeDecides ==
    \A f \in examined :
        f \in resolved <=> (MimeAllowed(f) \/ (f.mime = << >> /\ ExtensionAllowed(f)))

\* C20 amended: the filter accepts an entry if and only if its MIME type is
\* in the allowlist (in any letter case) or its extension is in the extension
\* set, whether the MIME type is absent or not.  audio/ogg is accepted with
\* any name, an absent MIME type with a .flac name is accepted, and a MIME
\* type that is present but not in the allowlist is accepted exactly when
\* the extension is in the set.
FilterMimeThenExtension ==
    \A f \in examined :
        /\ f \in resolved <=> (MimeAllowed(f) \/ ExtensionAllowed(f))
        /\ f.mime \in {AudioOgg, AudioXFlac} => f \in resolved
        /\ f.mime = << >> => (f \in resolved <=> f.name = CatFlac)
        /\ f.mime = ApplicationOgg => (f \in resolved <=> f.name = CatFlac)

\* An entry with MIME type application/ogg and a .Flac name was accepted,
\* another one with that MIME type was rejected.
FilterMimeThenExtensionWitness ==
    /\ \E f \in resolved : f.mime = ApplicationOgg /\ f.name = CatFlac
    /\ \E f \in examined \ resolved : f.mime = ApplicationOgg

----------------------------------------------------------------------------
\* C21: sanitizeFilename is idempotent, and the name it returns has at most
\* 255 characters and does not begin with a dot.
SanitizeIdempotent ==
    /\ fnPc = "twice" => resanitized = sanitized
    /\ fnPc # "idle" =>
        /\ Len(sanitized) <= MaxFilenameLength
        /\ sanitized = << >> \/ sanitized[1] # "."

----------------------------------------------------------------------------
\* C22: every non-empty output of the engine is rebuilt by the coordinator,
\* and the bytes rebuilt from the completion message equal the output byte
\* for byte and in length.
PayloadRoundTrip ==
    /\ payloadPc = "rejected" => Len(engineOut.elems) = 0
    /\ payloadPc = "rebuilt" =>
        /\ Len(uint8Array.elems) = Len(engineOut.elems)
        /\ \A i \in 1..Len(engineOut.elems) : uint8Array.elems[i] = engineOut.elems[i]
        /\ uint8Array = engineOut

PayloadRoundTripWitness ==
    /\ payloadPc = "rebuilt"
    /\ Len(engineOut.elems) = MaxBytes
    /\ engineOut.elems[1] = ByteRange - 1
    /\ engineOut.elems[2] = 0

----------------------------------------------------------------------------
\* C23: ffmpeg.load is invoked only by a load attempt in which coreURL and
\* then wasmURL were fetched successfully and the WASM payload was fetched,
\* found non-empty and compiled; an attempt that ends before that step
\* fails without an invocation of ffmpeg.load: no call is added, loaded stays
\* false and the cached promise is dropped.
PreflightBeforeLoad ==
    [][/\ ffCalls' > ffCalls =>
            /\ loading = "compile"
            /\ loading' = "ffload"
            /\ ffCalls' = ffCalls + 1
       /\ (loading' = "ffload" /\ loading # "ffload") => loading = "compile"
       /\ (loading' = "compile" /\ loading # "compile") => loading = "checkWasm"
       /\ (loading' = "checkWasm" /\ loading # "checkWasm") => loading = "checkCore"
       /\ (loading' = "checkCore" /\ loading # "checkCore") =>
            (loading = "idle" /\ ~loaded)
       /\ (loading \in {"checkCore", "checkWasm", "compile"} /\ loading' = "idle") =>
            /\ ffCalls' = ffCalls
            /\ ~loaded'
            /\ loadPromise' = NULL
            /\ \A j \in Waiters : jobPc'[j] = "edel1"]_vars

\* ffmpeg.load is running in an attempt that passed its pre-flight, after an
\* earlier attempt failed.
PreflightBeforeLoadWitness ==
    /\ loading = "ffload"
    /\ ffCalls = 1
    /\ \E j \in Req : jobPc[j] = "edel1"

----------------------------------------------------------------------------
\* C24: writeFile, exec and readFile of a job are invoked and pending only
\* while loaded is true; a job whose load attempt failed enters its catch
\* block and invokes none of them afterwards.
TranscodeOnlyWhenReady ==
    [][\A j \in Req :
        /\ Transcoding(j)' => loaded'
        /\ (jobPc[j] = "awaitload" /\ jobPc'[j] # "awaitload" /\ ~loaded') =>
                jobPc'[j] = "edel1"
        /\ jobPc[j] \in {"edel1", "edel2", "done"} => ~Transcoding(j)']_vars

\* A job whose load attempt failed is in its catch block and the session is
\* not Ready.
TranscodeOnlyWhenReadyWitness ==
    \E j \in Req :
        /\ jobPc[j] = "edel2"
        /\ ~loaded
        /\ loadPromise = NULL

----------------------------------------------------------------------------
\* C25: a job that has no source URL, or whose fetch fails or returns no
\* bytes, posts its failure and ends in that step: it was never in the
\* engine, it starts or joins no load, and loaded, the cached promise and the
\* load attempt are left as they were.
FetchFailureNoEngine ==
    [][\A j \in Req :
        /\ (jobPc[j] \in {"sent", "fetch"} /\ jobPc'[j] = "done") =>
            /\ posted'[j] = posted[j] + 1
            /\ broadcast'[j] = broadcast[j]
            /\ UNCHANGED <<loaded, loadPromise, loading, ffCalls>>
        /\ jobPc[j] = "sent" => jobPc'[j] \in {"sent", "fetch", "done"}
        /\ jobPc[j] = "fetch" => jobPc'[j] \in {"fetch", "done", "awaitload", "write"}]_vars

\* A job has failed before the engine while the load attempt another job
\* started is still running.
FetchFailureNoEngineWitness ==
    \E j \in Req :
        /\ jobPc[j] = "done"
        /\ posted[j] = 1
        /\ broadcast[j] = 0
        /\ loading = "checkCore"
        /\ Waiters # {}

----------------------------------------------------------------------------
\* C26: once readFile has returned the output, the job emits ok = true with
\* the output bytes whether the deletions return or throw: from the cleanup
\* the handler only goes on to the second deletion or to the completion
\* message, and such a job never posts a failure.
CleanupFailureHarmless ==
    [][\A j \in Req :
        /\ jobPc[j] \in {"del1", "del2"} =>
            /\ jobPc'[j] \in {"del1", "del2", "bcast"}
            /\ posted'[j] = posted[j]
        /\ (jobPc[j] \in {"del1", "del2"} /\ jobPc'[j] = "bcast") =>
            broadcast'[j] = broadcast[j] + 1
        /\ broadcast'[j] > 0 => posted'[j] = 0]_vars

\* A job has emitted its completion message after the cleanup.
CleanupFailureHarmlessWitness ==
    \E j \in Req :
        /\ jobPc[j] = "bcast"
        /\ broadcast[j] = 1
        /\ posted[j] = 0

----------------------------------------------------------------------------
\* C27: a job that has reached the engine emits its result only after the
\* deletion of the output file was attempted, which follows the attempt to
\* delete the input file whether that one returns or throws.
BothDeletionsAttempted ==
    [][\A j \in Req :
        /\ (jobPc'[j] = "bcast" /\ jobPc[j] # "bcast") => jobPc[j] = "del2"
        /\ (jobPc[j] = "del1" /\ jobPc'[j] # "del1") => jobPc'[j] = "del2"
        /\ (InEngine(j) /\ jobPc'[j] = "done") => jobPc[j] = "edel2"
        /\ (jobPc[j] = "edel1" /\ jobPc'[j] # "edel1") => jobPc'[j] = "edel2"]_vars

----------------------------------------------------------------------------
\* C28: the port of a job is closed only after the completion message of
\* the job was delivered to the listeners of the coordinator, when the
\* dispatch of the job is settled, its listener removed and its timer not
\* pending; a closed port belongs to a job whose handler has ended, never to
\* one that has an engine operation in progress.
ChannelClosedAfterDelivery ==
    [][\A j \in Req :
        /\ (port'[j] = "closed" /\ port[j] # "closed") =>
            /\ port[j] = "open"
            /\ jobPc[j] = "ack"
            /\ broadcast[j] = 1
            /\ reqPc[j] \in {"downloading", "responded"}
            /\ ~listener[j]
            /\ timer[j] # "pending"
        /\ port'[j] = "closed" =>
            /\ Finished(j)'
            /\ ~InEngine(j)']_vars

\* The dispatch of a job was resolved with the bytes of its completion
\* message and the port of the job is closed.
ChannelClosedAfterDeliveryWitness ==
    \E j \in Req :
        /\ port[j] = "closed"
        /\ reqPc[j] = "downloading"
        /\ sink[j] # << >>

----------------------------------------------------------------------------
\* A convert dispatch of request r is pending: transcodeToWav has registered
\* its listener and its promise is not settled.
PendingDispatch(r) == reqPc[r] = "waiting"

\* C29: a settled convert dispatch has no registered completion listener and
\* no pending timer, and the number of registered completion listeners
\* equals the number of pending convert dispatches.
ListenersMatchDispatches ==
    /\ \A r \in Req :
        (port[r] # "none" /\ ~PendingDispatch(r)) =>
            (~listener[r] /\ timer[r] # "pending")
    /\ Cardinality(Receivers) = Cardinality({r \in Req : PendingDispatch(r)})

----------------------------------------------------------------------------
\* C30: every port named 'ffmpeg' that the coordinator opens is eventually
\* disconnected, whatever the outcome of its job.
EveryChannelCloses ==
    \A r \in Req : (port[r] = "open") ~> (port[r] = "closed")

----------------------------------------------------------------------------
\* C31: once loaded is true it stays true, the promise of the attempt that
\* set it stays cached, and from then on no load attempt runs: no pre-flight
\* starts and ffmpeg.load is not invoked again.
ReadyIsPermanent ==
    [][/\ loaded' => (loadPromise' # NULL /\ loading' = "idle")
       /\ loaded =>
            /\ loaded'
            /\ loadPromise' = loadPromise
            /\ ffCalls' <= ffCalls
            /\ \A j \in Req : jobPc'[j] # "awaitload"]_vars

\* The session is Ready, one job has completed and been acknowledged, and
\* another job is at writeFile with no load attempt running.
ReadyIsPermanentWitness ==
    /\ loaded
    /\ loading = "idle"
    /\ \E j, k \in Req :
        /\ Finished(j)
        /\ broadcast[j] = 1
        /\ jobPc[k] = "write"

----------------------------------------------------------------------------
\* The calls of chrome.downloads.download made for the click, over the
\* message of the try block and the message of the catch block.
RECURSIVE SinkCalls(_)
SinkCalls(n) == IF n = 0 THEN 0 ELSE Len(sink[n]) + SinkCalls(n - 1)

\* C32: one click on the download button of one item leads to at most one
\* call of chrome.downloads.download for the item.
OneSinkCallPerClick ==
    clickPc # "idle" => SinkCalls(NumReq) <= 1

----------------------------------------------------------------------------
\* C33: when a completion message with ok = true arrives whose audioBytes is
\* missing, not an Array or empty, every dispatch that is pending and
\* listening fails: its requester is answered ok = false, and
\* chrome.downloads.download is called neither in that step nor later.
InvalidCompletionFails ==
    [][\A r \in Req :
        /\ (\E j \in Req : Delivers(j) /\ completion'[j] = "invalid") =>
            ((listener[r] /\ PendingDispatch(r)) =>
                /\ reqPc'[r] = "responded"
                /\ response'[r] = <<FALSE>>
                /\ sink'[r] = sink[r])
        /\ reqPc[r] = "responded" => sink'[r] = sink[r]]_vars

\* The dispatch of a job was failed by the invalid completion message of
\* its job: the requester was answered ok = false and nothing was
\* downloaded.
InvalidCompletionFailsWitness ==
    \E j \in Req :
        /\ completion[j] = "invalid"
        /\ mode[j] = "convert"
        /\ timer[j] = "none"
        /\ reqPc[j] = "responded"
        /\ response[j] = <<FALSE>>
        /\ sink[j] = << >>

====
